---- MODULE Spec2Model ----
(***************************************************************************)
(* Student Registration System (src/project2/script.js).                   *)
(*                                                                         *)
(* Strings are sequences of one-character strings, so that trimming, the   *)
(* validation patterns, the live input sanitizers and escapeHtml are       *)
(* computed character by character as the code computes them.  The         *)
(* content of the localStorage slot is a sequence of JSON tokens, produced *)
(* by JSONstringify and read back by JSONparse.                            *)
(***************************************************************************)
EXTENDS Integers, Sequences, FiniteSets, TLC

VARIABLES students, editIndex, nameInput, idInput, emailInput, contactInput,
          formMsg, submitBtn, tbody, emptyState, localStorage, pc,
          lastEvent, saveCalled

vars == <<students, editIndex, nameInput, idInput, emailInput, contactInput,
          formMsg, submitBtn, tbody, emptyState, localStorage, pc,
          lastEvent, saveCalled>>

(* ------------------------------ bounds --------------------------------- *)

\* Largest number of records the model lets the store grow to.
MaxStudents == 2

(* --------------------------- program constants ------------------------- *)

\* editIndex = null: no row is being edited.
Null == -1

\* /^[0-9]{10,}$/ : the least number of digits of a contact.
MinContactDigits == 10

MsgNone == ""
MsgRequired == "Please fill in all required fields."
MsgName == "Name must contain letters and spaces only."
MsgId == "Student ID must contain numbers only."
MsgEmail == "Please enter a valid email address."
MsgContact == "Contact number must be at least 10 digits (numbers only)."
MsgExists == "This exact record already exists."
MsgAdded == "Student added."
MsgUpdated == "Student updated."
MsgDeleted == "Record deleted."
MsgEditing == "Editing record. Make changes and press Update."

LabelAdd == "Add Student"
LabelUpdate == "Update Student"

(* ------------------------------ characters ----------------------------- *)

Letters == {"A", "B", "a", "b", "c"}
Digits == {"0", "1", "2", "3", "4", "5", "6", "7", "8", "9"}
Whitespace == {" "}

\* [A-Za-z ]
NameChars == Letters \cup {" "}

\* [^\s@]
EmailChars(ch) == ch \notin Whitespace /\ ch # "@"

RECURSIVE TrimStart(_)
TrimStart(s) ==
  IF s # <<>> /\ Head(s) \in Whitespace THEN TrimStart(Tail(s)) ELSE s

RECURSIVE TrimEnd(_)
TrimEnd(s) ==
  IF s # <<>> /\ s[Len(s)] \in Whitespace
  THEN TrimEnd(SubSeq(s, 1, Len(s) - 1))
  ELSE s

\* String.prototype.trim
trim(s) == TrimEnd(TrimStart(s))

\* value.replace(/[^...]/g, ""): keeps the characters of the class.
Strip(s, class) == SelectSeq(s, LAMBDA ch : ch \in class)

\* /^[class]+$/.test(s)
MatchesPlus(s, class) == Len(s) >= 1 /\ \A k \in 1..Len(s) : s[k] \in class

\* /^[A-Za-z ]+$/
NameOk(s) == MatchesPlus(s, NameChars)

\* /^[0-9]+$/
IdOk(s) == MatchesPlus(s, Digits)

\* /^[^\s@]+@[^\s@]*\.[^\s@]*$/ : the parts around the dot may be empty
EmailOkEmptyParts(s) ==
  \E at \in 1..Len(s) : \E dot \in 1..Len(s) :
     /\ s[at] = "@"
     /\ s[dot] = "."
     /\ at >= 2
     /\ dot >= at + 1
     /\ \A k \in 1..Len(s) : k # at => EmailChars(s[k])

\* /^[^\s@]+@[^\s@]+\.[^\s@]+$/
EmailOk(s) ==
  \E at \in 1..Len(s) : \E dot \in 1..Len(s) :
     /\ s[at] = "@"
     /\ s[dot] = "."
     /\ at >= 2
     /\ dot >= at + 2
     /\ dot <= Len(s) - 1
     /\ \A k \in 1..Len(s) : k # at => EmailChars(s[k])

\* /^[0-9]+$/ : the {10,} quantifier left out
ContactOkNoMinimum(s) == Len(s) >= 1 /\ \A k \in 1..Len(s) : s[k] \in Digits

\* /^[0-9]{10}$/ : exactly ten digits
ContactOkExactlyTen(s) == Len(s) = MinContactDigits /\ \A k \in 1..Len(s) : s[k] \in Digits

\* /^[0-9]{10,}$/
ContactOk(s) == Len(s) >= MinContactDigits /\ \A k \in 1..Len(s) : s[k] \in Digits

(* ------------------------------ validateForm --------------------------- *)

Fail(msg) == [ok |-> FALSE, error |-> msg, value |-> <<>>]

\* validateForm with the id check moved before the name check
validateFormIdFirst(rawName, rawId, rawEmail, rawContact) ==
  LET name == trim(rawName)
      id == trim(rawId)
      email == trim(rawEmail)
      contact == trim(rawContact)
  IN  IF name = <<>> \/ id = <<>> \/ email = <<>> \/ contact = <<>>
        THEN Fail(MsgRequired)
      ELSE IF ~IdOk(id) THEN Fail(MsgId)
      ELSE IF ~NameOk(name) THEN Fail(MsgName)
      ELSE IF ~EmailOk(email) THEN Fail(MsgEmail)
      ELSE IF ~ContactOk(contact) THEN Fail(MsgContact)
      ELSE [ok |-> TRUE, error |-> MsgNone,
            value |-> [name |-> name, id |-> id, email |-> email, contact |-> contact]]

validateForm(rawName, rawId, rawEmail, rawContact) ==
  LET name == trim(rawName)
      id == trim(rawId)
      email == trim(rawEmail)
      contact == trim(rawContact)
  IN  IF name = <<>> \/ id = <<>> \/ email = <<>> \/ contact = <<>>
        THEN Fail(MsgRequired)
      ELSE IF ~NameOk(name) THEN Fail(MsgName)
      ELSE IF ~IdOk(id) THEN Fail(MsgId)
      ELSE IF ~EmailOk(email) THEN Fail(MsgEmail)
      ELSE IF ~ContactOk(contact) THEN Fail(MsgContact)
      ELSE [ok |-> TRUE, error |-> MsgNone,
            value |-> [name |-> name, id |-> id, email |-> email, contact |-> contact]]

\* students.some(s => s.id === v.id) : records compared by id alone
ExistsSameId(list, v) == \E k \in 1..Len(list) : list[k].id = v.id

\* students.some(s => all four fields === those of v)
Exists(list, v) ==
  \E k \in 1..Len(list) :
     /\ list[k].name = v.name
     /\ list[k].id = v.id
     /\ list[k].email = v.email
     /\ list[k].contact = v.contact

(* ------------------------------ JSON ----------------------------------- *)

\* A JSON text is a sequence of tokens: the punctuation marks, the member
\* names ("key", holding the name) and the string literals ("str", holding
\* the characters).
Punct(t) == [t |-> t, s |-> <<>>]
KeyTok(k) == [t |-> "key", s |-> <<k>>]
StrTok(chars) == [t |-> "str", s |-> chars]

\* the object serialized with the email's text under the contact key as well
StringifyRecordRepeatsEmail(r) ==
  << Punct("{"),
     KeyTok("name"), Punct(":"), StrTok(r.name), Punct(","),
     KeyTok("id"), Punct(":"), StrTok(r.id), Punct(","),
     KeyTok("email"), Punct(":"), StrTok(r.email), Punct(","),
     KeyTok("contact"), Punct(":"), StrTok(r.email),
     Punct("}") >>

StringifyRecord(r) ==
  << Punct("{"),
     KeyTok("name"), Punct(":"), StrTok(r.name), Punct(","),
     KeyTok("id"), Punct(":"), StrTok(r.id), Punct(","),
     KeyTok("email"), Punct(":"), StrTok(r.email), Punct(","),
     KeyTok("contact"), Punct(":"), StrTok(r.contact),
     Punct("}") >>

RECURSIVE StringifyElems(_)
StringifyElems(list) ==
  IF list = <<>> THEN <<>>
  ELSE IF Len(list) = 1 THEN StringifyRecord(list[1])
  ELSE StringifyRecord(list[1]) \o <<Punct(",")>> \o StringifyElems(Tail(list))

\* JSON.stringify of an array of records
JSONstringify(list) == <<Punct("[")>> \o StringifyElems(list) \o <<Punct("]")>>

TokAt(toks, p) == IF p \in 1..Len(toks) THEN toks[p] ELSE Punct("eof")

ParseFail == [ok |-> FALSE, val |-> <<>>, next |-> 0]

\* members of an object, from the member name at position p on
RECURSIVE ParseMembers(_, _, _)
ParseMembers(toks, p, obj) ==
  IF /\ TokAt(toks, p).t = "key"
     /\ TokAt(toks, p + 1).t = ":"
     /\ TokAt(toks, p + 2).t = "str"
  THEN LET obj2 == (TokAt(toks, p).s[1] :> TokAt(toks, p + 2).s) @@ obj
       IN  IF TokAt(toks, p + 3).t = "," THEN ParseMembers(toks, p + 4, obj2)
           ELSE IF TokAt(toks, p + 3).t = "}"
                THEN [ok |-> TRUE, val |-> obj2, next |-> p + 4]
           ELSE ParseFail
  ELSE ParseFail

\* elements of an array, from the "{" expected at position p on
RECURSIVE ParseElems(_, _, _)
ParseElems(toks, p, acc) ==
  IF TokAt(toks, p).t # "{" THEN ParseFail
  ELSE LET o == ParseMembers(toks, p + 1, <<>>)
       IN  IF ~o.ok THEN ParseFail
           ELSE IF TokAt(toks, o.next).t = ","
                THEN ParseElems(toks, o.next + 1, Append(acc, o.val))
           ELSE IF TokAt(toks, o.next).t = "]"
                THEN [ok |-> TRUE, val |-> Append(acc, o.val), next |-> o.next + 1]
           ELSE ParseFail

\* JSON.parse of a text that should hold an array of records; ok = FALSE
\* stands for the SyntaxError it throws.
JSONparse(toks) ==
  IF TokAt(toks, 1).t # "[" THEN ParseFail
  ELSE IF TokAt(toks, 2).t = "]"
       THEN (IF Len(toks) = 2 THEN [ok |-> TRUE, val |-> <<>>, next |-> 3] ELSE ParseFail)
  ELSE LET r == ParseElems(toks, 2, <<>>)
       IN  IF r.ok /\ r.next = Len(toks) + 1 THEN r ELSE ParseFail

(* ------------------------------ localStorage --------------------------- *)

\* The slot STORAGE_KEY: absent, or holding a text.
NoItem == [present |-> FALSE, raw |-> <<>>]
Item(raw) == [present |-> TRUE, raw |-> raw]

\* localStorage.getItem(STORAGE_KEY) is null or "" : start empty.
\* JSON.parse throws: caught, start empty.
loadStudents(ls) ==
  IF ~ls.present \/ ls.raw = <<>> THEN <<>>
  ELSE IF JSONparse(ls.raw).ok THEN JSONparse(ls.raw).val
  ELSE <<>>

\* the array serialized without its last element
saveStudentsDropsLast(list) ==
  Item(JSONstringify(SubSeq(list, 1, Len(list) - 1)))

saveStudents(list) == Item(JSONstringify(list))

(* ------------------------------ escapeHtml ----------------------------- *)

\* String(s.field): the field's text, or "undefined" when the object has no
\* such member.
JSString(r, field) ==
  IF field \in DOMAIN r THEN r[field]
  ELSE <<"u", "n", "d", "e", "f", "i", "n", "e", "d">>

RECURSIVE ReplaceAll(_, _, _)
ReplaceAll(s, ch, by) ==
  IF s = <<>> THEN <<>>
  ELSE (IF Head(s) = ch THEN by ELSE <<Head(s)>>) \o ReplaceAll(Tail(s), ch, by)

\* escapeHtml without its last replaceAll: the apostrophe is left as it is
escapeHtmlKeepsApostrophe(str) ==
  LET s1 == ReplaceAll(str, "&", <<"&", "a", "m", "p", ";">>)
      s2 == ReplaceAll(s1, "<", <<"&", "l", "t", ";">>)
      s3 == ReplaceAll(s2, ">", <<"&", "g", "t", ";">>)
  IN  ReplaceAll(s3, "\"", <<"&", "q", "u", "o", "t", ";">>)

escapeHtml(str) ==
  LET s1 == ReplaceAll(str, "&", <<"&", "a", "m", "p", ";">>)
      s2 == ReplaceAll(s1, "<", <<"&", "l", "t", ";">>)
      s3 == ReplaceAll(s2, ">", <<"&", "g", "t", ";">>)
      s4 == ReplaceAll(s3, "\"", <<"&", "q", "u", "o", "t", ";">>)
  IN  ReplaceAll(s4, "'", <<"&", "#", "0", "3", "9", ";">>)

(* ------------------------------ renderTable ---------------------------- *)

\* One <tr> per record: the 1-based label, the four escaped cells and the
\* data-index of the Edit and Delete buttons.
\* the rows drawn with the 1-based position in the action identifiers
RenderRowsOneBased(list) ==
  [k \in 1..Len(list) |->
     [label |-> k,
      name |-> escapeHtml(JSString(list[k], "name")),
      id |-> escapeHtml(JSString(list[k], "id")),
      email |-> escapeHtml(JSString(list[k], "email")),
      contact |-> escapeHtml(JSString(list[k], "contact")),
      edit |-> k,
      delete |-> k]]

RenderRows(list) ==
  [k \in 1..Len(list) |->
     [label |-> k,
      name |-> escapeHtml(JSString(list[k], "name")),
      id |-> escapeHtml(JSString(list[k], "id")),
      email |-> escapeHtml(JSString(list[k], "email")),
      contact |-> escapeHtml(JSString(list[k], "contact")),
      edit |-> k - 1,
      delete |-> k - 1]]

\* emptyState.style.display
EmptyDisplay(list) == IF Len(list) = 0 THEN "block" ELSE "none"

(* ------------------------------ inputs --------------------------------- *)

TenOnes == <<"1", "1", "1", "1", "1", "1", "1", "1", "1", "1">>

\* What the user types or pastes into each field.
NameInputs == { <<"A">>, <<" ", "B", "1">> }
IdInputs == { <<"x", "7">> }
EmailInputs == { <<"a", "@", "b", ".", "c">>, <<"a", "@", "b">> }
ContactInputs == { TenOnes, <<"5", "5", "5", "-">> }

\* Records a slot written by this program holds, and one it would not write.
StoredRecord == [name |-> <<"A">>, id |-> <<"7">>,
                 email |-> <<"a", "@", "b", ".", "c">>, contact |-> TenOnes]
ForeignRecord == [name |-> <<"B", "<", "1">>, id |-> <<"7">>,
                  email |-> <<"a", "@", "b", ".", "c">>, contact |-> TenOnes]

\* Contents of the slot when the page is opened.
InitialSlots ==
  { NoItem,
    Item(<<>>),
    Item(<<Punct("["), Punct("{")>>),
    Item(JSONstringify(<<>>)),
    Item(JSONstringify(<<StoredRecord>>)),
    Item(JSONstringify(<<ForeignRecord>>)),
    Item(JSONstringify(<<StoredRecord, ForeignRecord>>)) }

(* ------------------------------ initial state -------------------------- *)

\* The text of the submit button in the page as delivered: the "Add" label.
InitialLabel == LabelAdd

\* The script's top level and the DOMContentLoaded handler.
Init ==
  /\ localStorage \in InitialSlots
  /\ students = loadStudents(localStorage)
  /\ tbody = RenderRows(students)
  /\ emptyState = EmptyDisplay(students)
  /\ editIndex = Null
  /\ nameInput = <<>>
  /\ idInput = <<>>
  /\ emailInput = <<>>
  /\ contactInput = <<>>
  /\ formMsg = MsgNone
  /\ submitBtn = InitialLabel
  /\ pc = "idle"
  /\ lastEvent = "other"
  /\ saveCalled = FALSE

(* ------------------------------ input events --------------------------- *)

\* nameInput "input" listener
NameInputEvent(v) ==
  /\ pc = "idle"
  /\ nameInput' = Strip(v, NameChars)
  /\ lastEvent' = "other"
  /\ UNCHANGED <<students, editIndex, idInput, emailInput, contactInput, formMsg,
                 submitBtn, tbody, emptyState, localStorage, pc, saveCalled>>

\* idInput "input" listener
IdInputEvent(v) ==
  /\ pc = "idle"
  /\ idInput' = Strip(v, Digits)
  /\ lastEvent' = "other"
  /\ UNCHANGED <<students, editIndex, nameInput, emailInput, contactInput, formMsg,
                 submitBtn, tbody, emptyState, localStorage, pc, saveCalled>>

\* the email field has no listener: the typed text stays as typed
EmailInputEvent(v) ==
  /\ pc = "idle"
  /\ emailInput' = v
  /\ lastEvent' = "other"
  /\ UNCHANGED <<students, editIndex, nameInput, idInput, contactInput, formMsg,
                 submitBtn, tbody, emptyState, localStorage, pc, saveCalled>>

\* contactInput "input" listener
ContactInputEvent(v) ==
  /\ pc = "idle"
  /\ contactInput' = Strip(v, Digits)
  /\ lastEvent' = "other"
  /\ UNCHANGED <<students, editIndex, nameInput, idInput, emailInput, formMsg,
                 submitBtn, tbody, emptyState, localStorage, pc, saveCalled>>

(* ------------------------------ array operations ----------------------- *)

\* students[index] is an element (not undefined)
HasRecord(list, index) == index >= 0 /\ index < Len(list)

\* students.pop() : the last record goes, whatever the index
RemoveLast(list, index) == SubSeq(list, 1, Len(list) - 1)

\* students.splice(index, 1)
RemoveAt(list, index) ==
  SubSeq(list, 1, index) \o SubSeq(list, index + 2, Len(list))

\* the record taken out and the new one pushed at the end
ReplaceAtMovesToEnd(list, index, v) ==
  Append(SubSeq(list, 1, index) \o SubSeq(list, index + 2, Len(list)), v)

\* students[index] = v ; on index = length JavaScript extends the array
ReplaceAt(list, index, v) ==
  IF index < Len(list) THEN [list EXCEPT ![index + 1] = v] ELSE Append(list, v)

\* students.push(v)
Push(list, v) == Append(list, v)

\* if(exists) : the duplicate check not limited to adding
RejectsDuplicateAlways(list, v, ei) == Exists(list, v)

\* if(exists && editIndex === null)
RejectsDuplicate(list, v, ei) == Exists(list, v) /\ ei = Null

\* the "Insert or update" branch of the submit handler
InsertOrUpdate(list, ei, v) ==
  IF ei = Null THEN Push(list, v) ELSE ReplaceAt(list, ei, v)

\* the answer to confirm(...) ignored
DeleteProceedsUnasked(list, index, ok) == HasRecord(list, index)

\* if(!s) return; ... if(!ok) return;
DeleteProceeds(list, index, ok) == HasRecord(list, index) /\ ok

(* ------------------------------ row actions ---------------------------- *)

\* startEdit without the assignment of the button's text
startEditKeepsLabel(index) ==
  /\ pc = "idle"
  /\ IF ~HasRecord(students, index)
     THEN /\ lastEvent' = "edit:norecord"
          /\ UNCHANGED <<students, editIndex, nameInput, idInput, emailInput, contactInput,
                         formMsg, submitBtn, tbody, emptyState, localStorage, pc, saveCalled>>
     ELSE /\ editIndex' = index
          /\ nameInput' = students[index + 1].name
          /\ idInput' = students[index + 1].id
          /\ emailInput' = students[index + 1].email
          /\ contactInput' = students[index + 1].contact
          /\ formMsg' = MsgEditing
          /\ lastEvent' = "other"
          /\ UNCHANGED <<students, submitBtn, tbody, emptyState, localStorage, pc, saveCalled>>

startEdit(index) ==
  /\ pc = "idle"
  /\ IF ~HasRecord(students, index)
     THEN /\ lastEvent' = "edit:norecord"
          /\ UNCHANGED <<students, editIndex, nameInput, idInput, emailInput, contactInput,
                         formMsg, submitBtn, tbody, emptyState, localStorage, pc, saveCalled>>
     ELSE /\ editIndex' = index
          /\ nameInput' = students[index + 1].name
          /\ idInput' = students[index + 1].id
          /\ emailInput' = students[index + 1].email
          /\ contactInput' = students[index + 1].contact
          /\ submitBtn' = LabelUpdate
          /\ formMsg' = MsgEditing
          /\ lastEvent' = "other"
          /\ UNCHANGED <<students, tbody, emptyState, localStorage, pc, saveCalled>>

\* deleteRow without its call of saveStudents()
deleteRowWithoutSave(index, ok) ==
  /\ pc = "idle"
  /\ IF ~DeleteProceeds(students, index, ok)
     THEN /\ lastEvent' = (IF HasRecord(students, index) THEN "delete:declined"
                           ELSE "delete:norecord")
          /\ UNCHANGED <<students, editIndex, nameInput, idInput, emailInput, contactInput,
                         formMsg, submitBtn, tbody, emptyState, localStorage, pc, saveCalled>>
     ELSE /\ students' = RemoveAt(students, index)
          /\ saveCalled' = TRUE
          /\ tbody' = RenderRows(students')
          /\ emptyState' = EmptyDisplay(students')
          /\ nameInput' = <<>>
          /\ idInput' = <<>>
          /\ emailInput' = <<>>
          /\ contactInput' = <<>>
          /\ editIndex' = Null
          /\ submitBtn' = LabelAdd
          /\ formMsg' = MsgDeleted
          /\ lastEvent' = "other"
          /\ UNCHANGED <<localStorage, pc>>

\* ok is the answer to confirm(...)
\* deleteRow whose form reset leaves editIndex as it is
deleteRowKeepsEdit(index, ok) ==
  /\ pc = "idle"
  /\ IF ~DeleteProceeds(students, index, ok)
     THEN /\ lastEvent' = (IF HasRecord(students, index) THEN "delete:declined"
                           ELSE "delete:norecord")
          /\ UNCHANGED <<students, editIndex, nameInput, idInput, emailInput, contactInput,
                         formMsg, submitBtn, tbody, emptyState, localStorage, pc, saveCalled>>
     ELSE /\ students' = RemoveAt(students, index)
          /\ localStorage' = saveStudents(students')
          /\ saveCalled' = TRUE
          /\ tbody' = RenderRows(students')
          /\ emptyState' = EmptyDisplay(students')
          /\ nameInput' = <<>>
          /\ idInput' = <<>>
          /\ emailInput' = <<>>
          /\ contactInput' = <<>>
          /\ submitBtn' = LabelAdd
          /\ formMsg' = MsgDeleted
          /\ lastEvent' = "other"
          /\ UNCHANGED <<editIndex, pc>>

deleteRow(index, ok) ==
  /\ pc = "idle"
  /\ IF ~DeleteProceeds(students, index, ok)
     THEN /\ lastEvent' = (IF HasRecord(students, index) THEN "delete:declined"
                           ELSE "delete:norecord")
          /\ UNCHANGED <<students, editIndex, nameInput, idInput, emailInput, contactInput,
                         formMsg, submitBtn, tbody, emptyState, localStorage, pc, saveCalled>>
     ELSE /\ students' = RemoveAt(students, index)
          /\ localStorage' = saveStudents(students')
          /\ saveCalled' = TRUE
          /\ tbody' = RenderRows(students')
          /\ emptyState' = EmptyDisplay(students')
          /\ nameInput' = <<>>
          /\ idInput' = <<>>
          /\ emailInput' = <<>>
          /\ contactInput' = <<>>
          /\ editIndex' = Null
          /\ submitBtn' = LabelAdd
          /\ formMsg' = MsgDeleted
          /\ lastEvent' = "other"
          /\ UNCHANGED pc

\* A click on a button of the rendered table: the index is read from the
\* button's data-index.
handleRowAction(row, action) ==
  /\ row \in 1..Len(tbody)
  /\ \/ action = "edit" /\ startEdit(tbody[row].edit)
     \/ action = "delete" /\ \E ok \in BOOLEAN : deleteRow(tbody[row].delete, ok)

(* ------------------------------ form events ---------------------------- *)

\* form "submit" listener
SubmitEvent ==
  /\ pc = "idle"
  /\ LET v == validateForm(nameInput, idInput, emailInput, contactInput)
     IN  IF ~v.ok
         THEN /\ formMsg' = v.error
              /\ lastEvent' = "other"
              /\ UNCHANGED <<students, editIndex, nameInput, idInput, emailInput,
                             contactInput, submitBtn, tbody, emptyState, localStorage,
                             pc, saveCalled>>
         ELSE IF RejectsDuplicate(students, v.value, editIndex)
         THEN /\ formMsg' = MsgExists
              /\ lastEvent' = "other"
              /\ UNCHANGED <<students, editIndex, nameInput, idInput, emailInput,
                             contactInput, submitBtn, tbody, emptyState, localStorage,
                             pc, saveCalled>>
         ELSE /\ editIndex = Null => Len(students) < MaxStudents
              /\ students' = InsertOrUpdate(students, editIndex, v.value)
              /\ formMsg' = (IF editIndex = Null THEN MsgAdded ELSE MsgUpdated)
              /\ lastEvent' = "other"
              /\ localStorage' = saveStudents(students')
              /\ saveCalled' = TRUE
              /\ tbody' = RenderRows(students')
              /\ emptyState' = EmptyDisplay(students')
              /\ nameInput' = <<>>
              /\ idInput' = <<>>
              /\ emailInput' = <<>>
              /\ contactInput' = <<>>
              /\ editIndex' = Null
              /\ submitBtn' = LabelAdd
              /\ UNCHANGED pc

\* A click on resetBtn.  The script keeps a reference to the button but adds
\* no listener to it and none to the form's "reset" event, so resetForm() does
\* not run: only the browser's own reset of the form happens, which empties
\* the four fields.
ResetClick ==
  /\ pc = "idle"
  /\ nameInput' = <<>>
  /\ idInput' = <<>>
  /\ emailInput' = <<>>
  /\ contactInput' = <<>>
  /\ lastEvent' = "reset"
  /\ UNCHANGED <<students, editIndex, formMsg, submitBtn, tbody, emptyState,
                 localStorage, pc, saveCalled>>

(* ------------------------------ specification -------------------------- *)

InputEvents ==
  \/ \E v \in NameInputs : NameInputEvent(v)
  \/ \E v \in IdInputs : IdInputEvent(v)
  \/ \E v \in EmailInputs : EmailInputEvent(v)
  \/ \E v \in ContactInputs : ContactInputEvent(v)

RowClick == \E row \in 1..Len(tbody) : \E action \in {"edit", "delete"} :
              handleRowAction(row, action)

Next ==
  \/ InputEvents
  \/ RowClick
  \/ SubmitEvent
  \/ ResetClick

Spec == Init /\ [][Next]_vars

(* ---------------- the handlers, statement by statement ----------------- *)

\* The same handlers with one step per statement that changes the array, the
\* slot or the table; pc names the statement the running handler is at.

SavePcs == {"submit:save", "delete:save"}
RenderPcs == {"submit:render", "delete:render"}
ResetPcs == {"submit:reset", "delete:reset"}

\* form "submit" listener up to the end of the "Insert or update" branch
SubmitBegin ==
  /\ pc = "idle"
  /\ LET v == validateForm(nameInput, idInput, emailInput, contactInput)
     IN  IF ~v.ok
         THEN /\ formMsg' = v.error
              /\ UNCHANGED <<students, pc>>
         ELSE IF RejectsDuplicate(students, v.value, editIndex)
         THEN /\ formMsg' = MsgExists
              /\ UNCHANGED <<students, pc>>
         ELSE /\ editIndex = Null => Len(students) < MaxStudents
              /\ students' = InsertOrUpdate(students, editIndex, v.value)
              /\ formMsg' = (IF editIndex = Null THEN MsgAdded ELSE MsgUpdated)
              /\ pc' = "submit:save"
  /\ lastEvent' = "other"
  /\ UNCHANGED <<editIndex, nameInput, idInput, emailInput, contactInput, submitBtn,
                 tbody, emptyState, localStorage, saveCalled>>

\* deleteRow up to students.splice(index, 1)
DeleteBegin(index, ok) ==
  /\ pc = "idle"
  /\ IF ~DeleteProceeds(students, index, ok)
     THEN /\ lastEvent' = (IF HasRecord(students, index) THEN "delete:declined"
                           ELSE "delete:norecord")
          /\ UNCHANGED <<students, pc>>
     ELSE /\ students' = RemoveAt(students, index)
          /\ lastEvent' = "other"
          /\ pc' = "delete:save"
  /\ UNCHANGED <<editIndex, nameInput, idInput, emailInput, contactInput, formMsg,
                 submitBtn, tbody, emptyState, localStorage, saveCalled>>

\* saveStudents();
SaveStep ==
  /\ pc \in SavePcs
  /\ localStorage' = saveStudents(students)
  /\ saveCalled' = TRUE
  /\ pc' = (IF pc = "submit:save" THEN "submit:render" ELSE "delete:render")
  /\ UNCHANGED <<students, editIndex, nameInput, idInput, emailInput, contactInput,
                 formMsg, submitBtn, tbody, emptyState, lastEvent>>

\* renderTable();
RenderStep ==
  /\ pc \in RenderPcs
  /\ tbody' = RenderRows(students)
  /\ emptyState' = EmptyDisplay(students)
  /\ pc' = (IF pc = "submit:render" THEN "submit:reset" ELSE "delete:reset")
  /\ UNCHANGED <<students, editIndex, nameInput, idInput, emailInput, contactInput,
                 formMsg, submitBtn, localStorage, lastEvent, saveCalled>>

\* resetForm(); and, in deleteRow, announce("Record deleted.");
ResetStep ==
  /\ pc \in ResetPcs
  /\ nameInput' = <<>>
  /\ idInput' = <<>>
  /\ emailInput' = <<>>
  /\ contactInput' = <<>>
  /\ editIndex' = Null
  /\ submitBtn' = LabelAdd
  /\ formMsg' = (IF pc = "delete:reset" THEN MsgDeleted ELSE formMsg)
  /\ pc' = "idle"
  /\ UNCHANGED <<students, tbody, emptyState, localStorage, lastEvent, saveCalled>>

RowClickSteps == \E row \in 1..Len(tbody) :
                   \/ startEdit(tbody[row].edit)
                   \/ \E ok \in BOOLEAN : DeleteBegin(tbody[row].delete, ok)

NextSteps ==
  \/ InputEvents
  \/ RowClickSteps
  \/ SubmitBegin
  \/ SaveStep
  \/ RenderStep
  \/ ResetStep
  \/ ResetClick

SpecSteps == Init /\ [][NextSteps]_vars

(* ---------------- the row functions called with any index -------------- *)

\* startEdit and deleteRow are guarded against an index that names no
\* record; here they are called with every index from 0 to MaxStudents, not
\* only with the indices of the rendered buttons.
CallStartEdit == \E index \in 0..MaxStudents : startEdit(index)

CallDeleteRow == \E index \in 0..MaxStudents : \E ok \in BOOLEAN : deleteRow(index, ok)

NextCalls ==
  \/ Next
  \/ CallStartEdit
  \/ CallDeleteRow

SpecCalls == Init /\ [][NextCalls]_vars

(* ---------------- validateForm on raw field values --------------------- *)

\* Bounds of the raw values the fields are given.
MaxNameLen == 3
MaxEmailLen == 5
MaxContactLen == 11

\* All strings of at most n characters of an alphabet.
RECURSIVE StringsUpTo(_, _)
StringsUpTo(alphabet, n) ==
  IF n = 0 THEN { <<>> }
  ELSE LET shorter == StringsUpTo(alphabet, n - 1)
       IN  shorter \cup { Append(s, ch) : s \in shorter, ch \in alphabet }

\* n times the digit "1"
Ones(n) == [k \in 1..n |-> "1"]

ValidEmailText == <<"a", "@", "b", ".", "c">>

RawNames == { <<"A">>, <<" ", "A", " ", "B", " ">>, <<"A", "1">>, <<" ">>, <<>> }
RawIds == { <<"7">>, <<" ", "7", "0">>, <<"x", "7">>, <<>> }
RawEmails == { ValidEmailText, <<" ", "a", "@", "b", ".", "c", " ">>, <<"a", "@", "b">>, <<>> }
RawContacts == { Ones(n) : n \in 0..MaxContactLen } \cup { <<"5", "5", "5", "-">> }

\* The values the four fields hold when the form is submitted: every
\* combination of the raw values above, every short name and every short
\* email beside valid other fields.
RawForms ==
  (RawNames \X RawIds \X RawEmails \X RawContacts)
  \cup ({ <<"A">> } \X { <<"7">> } \X StringsUpTo({"a", "@", ".", " "}, MaxEmailLen) \X { TenOnes })
  \cup (StringsUpTo({"A", "b", " ", "1", "<"}, MaxNameLen) \X { <<"7">> } \X { ValidEmailText }
          \X { TenOnes })

\* The page opened on an empty store, the four fields filled.
InitValidate ==
  /\ localStorage = NoItem
  /\ students = loadStudents(localStorage)
  /\ tbody = RenderRows(students)
  /\ emptyState = EmptyDisplay(students)
  /\ editIndex = Null
  /\ \E f \in RawForms :
        /\ nameInput = f[1]
        /\ idInput = f[2]
        /\ emailInput = f[3]
        /\ contactInput = f[4]
  /\ formMsg = MsgNone
  /\ submitBtn = InitialLabel
  /\ pc = "idle"
  /\ lastEvent = "other"
  /\ saveCalled = FALSE

NextValidate == SubmitEvent

SpecValidate == InitValidate /\ [][NextValidate]_vars

(* ---------------- the page opened on any content of the slot ----------- *)

\* Largest length of the field values of the records in the slot.
MaxFieldLen == 2

\* The characters escapeHtml replaces, and two it does not.
MarkupChars == {"&", "<", ">", "\"", "'", "a", ";"}

\* A record of the slot with the given name and contact.
SlotRecord(name, contact) ==
  [name |-> name, id |-> <<"7">>, email |-> ValidEmailText, contact |-> contact]

\* The text [{"name":"A"}] : an array whose object lacks three members.
PartialRecordText ==
  << Punct("["), Punct("{"), KeyTok("name"), Punct(":"), StrTok(<<"A">>),
     Punct("}"), Punct("]") >>

\* Contents of the slot when the page is opened: those of InitialSlots, an
\* array of objects that are not records, and arrays of one record whose
\* name is any string of at most MaxFieldLen of the characters above.
LoadSlots ==
  InitialSlots
  \cup { Item(PartialRecordText) }
  \cup { Item(JSONstringify(<<SlotRecord(n, TenOnes)>>)) :
           n \in StringsUpTo(MarkupChars, MaxFieldLen) }
  \cup { Item(JSONstringify(<<StoredRecord, SlotRecord(<<"A">>, c)>>)) :
           c \in StringsUpTo({"<", "'"}, MaxFieldLen) }

InitLoad ==
  /\ localStorage \in LoadSlots
  /\ students = loadStudents(localStorage)
  /\ tbody = RenderRows(students)
  /\ emptyState = EmptyDisplay(students)
  /\ editIndex = Null
  /\ nameInput = <<>>
  /\ idInput = <<>>
  /\ emailInput = <<>>
  /\ contactInput = <<>>
  /\ formMsg = MsgNone
  /\ submitBtn = InitialLabel
  /\ pc = "idle"
  /\ lastEvent = "other"
  /\ saveCalled = FALSE

\* The page opened again: the script's top level and the DOMContentLoaded
\* handler run on the slot as it is.
Reload ==
  /\ pc = "idle"
  /\ students' = loadStudents(localStorage)
  /\ tbody' = RenderRows(students')
  /\ emptyState' = EmptyDisplay(students')
  /\ editIndex' = Null
  /\ nameInput' = <<>>
  /\ idInput' = <<>>
  /\ emailInput' = <<>>
  /\ contactInput' = <<>>
  /\ formMsg' = MsgNone
  /\ submitBtn' = InitialLabel
  /\ lastEvent' = "other"
  /\ saveCalled' = FALSE
  /\ UNCHANGED <<localStorage, pc>>

NextLoad ==
  \/ InputEvents
  \/ Reload

SpecLoad == InitLoad /\ [][NextLoad]_vars

\* The page used and opened again at any moment.
NextReload ==
  \/ Next
  \/ Reload

SpecReload == Init /\ [][NextReload]_vars

(* ====================== properties of the program ====================== *)

\* The four field constraints of a StudentRecord, as the data model states them.
ValidName(s) == s # <<>> /\ \A k \in 1..Len(s) : s[k] \in Letters \cup {" "}
ValidId(s) == s # <<>> /\ \A k \in 1..Len(s) : s[k] \in Digits
ValidEmail(s) ==
  /\ Cardinality({k \in 1..Len(s) : s[k] = "@"}) = 1
  /\ \A k \in 1..Len(s) : s[k] # " "
  /\ s[1] # "@"
  /\ \E d \in 1..Len(s) :
        /\ s[d] = "."
        /\ d < Len(s)
        /\ \E a \in 1..(d - 2) : s[a] = "@"
ValidContact(s) == Len(s) >= 10 /\ \A k \in 1..Len(s) : s[k] \in Digits

SatisfiesConstraints(r) ==
  /\ ValidName(r.name)
  /\ ValidId(r.id)
  /\ ValidEmail(r.email)
  /\ ValidContact(r.contact)

\* The record the form holds: its four fields, trimmed.
Candidate == [name |-> trim(nameInput), id |-> trim(idInput),
              email |-> trim(emailInput), contact |-> trim(contactInput)]

\* The sequence the slot holds, when it holds one.
SlotHolds(ls, list) == ls.present /\ JSONparse(ls.raw).ok /\ JSONparse(ls.raw).val = list
PersistedIs(list) == SlotHolds(localStorage, list)

FormVars == <<nameInput, idInput, emailInput, contactInput>>

\* C1: every record of the in-memory sequence satisfies the four field
\* constraints, whatever the slot held when the page was opened.
C1_RecordsSatisfyConstraints ==
  \A k \in 1..Len(students) : SatisfiesConstraints(students[k])

\* C2: after an explicit reset of the form the controller is in Adding: the
\* edit marker is cleared, the form is cleared and the submit label is the
\* "Add" label.
C2_ResetLeavesAdding ==
  lastEvent = "reset" =>
     /\ editIndex = Null
     /\ submitBtn = LabelAdd
     /\ FormVars = <<<<>>, <<>>, <<>>, <<>>>>

\* C3, as stated: the steps run in the order mutate, persist, redraw, and
\* wherever a running create/update/delete is cut off, the persisted sequence
\* is the one the table shows.
C3_CutOffShowsPersisted ==
  /\ pc \in RenderPcs \cup ResetPcs => PersistedIs(students)
  /\ pc \in ResetPcs => tbody = RenderRows(students)
  /\ pc # "idle" => tbody = RenderRows(loadStudents(localStorage))

\* C3, amended: the array changes only in the first step of a handler, the
\* slot only in the save step that follows it, the table only in the render
\* step after that.  Cut off before the save, the slot still holds what the
\* table shows; cut off after it, the slot holds the new array, whatever the
\* table shows.  The text "added"/"updated" is set with the mutation, the
\* text "deleted" after the redraw.
C3_MutatePersistRedraw ==
  /\ [] ( /\ pc \in SavePcs => tbody = RenderRows(loadStudents(localStorage))
          /\ pc = "submit:save" => formMsg \in {MsgAdded, MsgUpdated}
          /\ pc \in RenderPcs \cup ResetPcs =>
               /\ localStorage.present
               /\ loadStudents(localStorage) = students
          /\ pc \in ResetPcs => tbody = RenderRows(students) )
  /\ [][ /\ students' # students =>
              /\ pc = "idle" /\ pc' \in SavePcs
              /\ localStorage' = localStorage /\ tbody' = tbody
         /\ localStorage' # localStorage =>
              /\ pc \in SavePcs /\ pc' \in RenderPcs
              /\ tbody' = tbody
         /\ tbody' # tbody =>
              /\ pc \in RenderPcs /\ pc' \in ResetPcs
         /\ (formMsg' = MsgDeleted /\ formMsg # MsgDeleted) => pc = "delete:reset"
       ]_vars

\* A create cut off between persist and redraw: the slot holds the new
\* record, the table does not show it.
C3_Witness ==
  /\ pc = "submit:render"
  /\ PersistedIs(students)
  /\ Len(tbody) < Len(students)

\* C4: once a create, update or delete has completed, the slot holds exactly
\* the in-memory sequence; before that the in-memory sequence is the one
\* loaded from the slot.
C4_SlotHoldsStudents ==
  IF saveCalled THEN PersistedIs(students)
  ELSE students = loadStudents(localStorage)

C4_Witness ==
  /\ saveCalled
  /\ formMsg = MsgUpdated
  /\ Len(students) = 2
  /\ students[1] # students[2]

\* C5: a submission whose trimmed fields do not satisfy the four constraints
\* changes nothing but the status message, in Adding and in Editing(i).
C5_RejectedSubmitChangesNothing ==
  [][ (SubmitEvent /\ ~SatisfiesConstraints(Candidate)) =>
         /\ UNCHANGED <<students, localStorage, editIndex, submitBtn, FormVars,
                        tbody, emptyState>>
         /\ formMsg' \in {MsgRequired, MsgName, MsgId, MsgEmail, MsgContact}
    ]_vars

\* Contact "555" was submitted while editing: still editing, the form still
\* holds "555".
C5_Witness ==
  /\ formMsg = MsgContact
  /\ editIndex # Null
  /\ submitBtn = LabelUpdate
  /\ contactInput = <<"5", "5", "5">>

\* C6: in Adding, a submission that satisfies the constraints is rejected
\* exactly when some stored record equals the candidate on all four fields,
\* and then nothing but the message changes; otherwise the candidate is
\* appended, persisted, and the controller is in Adding.
C6_AddAppendsUnlessDuplicate ==
  [][ (SubmitEvent /\ editIndex = Null /\ SatisfiesConstraints(Candidate)) =>
         IF \E k \in 1..Len(students) : students[k] = Candidate
         THEN /\ UNCHANGED <<students, localStorage, editIndex, submitBtn>>
              /\ formMsg' = MsgExists
         ELSE /\ Len(students') = Len(students) + 1
              /\ SubSeq(students', 1, Len(students)) = students
              /\ students'[Len(students')] = Candidate
              /\ SlotHolds(localStorage', students')
              /\ editIndex' = Null
              /\ submitBtn' = LabelAdd
    ]_vars

\* Two records with the same id and different names, the second just added.
C6_Witness ==
  /\ formMsg = MsgAdded
  /\ Len(students) = 2
  /\ students[1].id = students[2].id
  /\ students[1].name # students[2].name

\* C7: in Editing(i), a submission that satisfies the constraints replaces
\* the record at position i and no other, in memory and in the slot.
C7_UpdateReplacesOnlyI ==
  [][ (SubmitEvent /\ editIndex # Null /\ SatisfiesConstraints(Candidate)) =>
         /\ Len(students') = Len(students)
         /\ students'[editIndex + 1] = Candidate
         /\ \A j \in 1..Len(students) : j # editIndex + 1 => students'[j] = students[j]
         /\ SlotHolds(localStorage', students')
    ]_vars

\* The first of two records was just replaced; the second is the record the
\* slot was opened with.
C7_Witness ==
  /\ formMsg = MsgUpdated
  /\ Len(students) = 2
  /\ students[2] = ForeignRecord
  /\ students[1].name = <<"B">>

\* C8: the duplicate check runs in Adding only: in Editing(i) a candidate
\* equal to another record j is stored, so that two equal records are held;
\* in Adding the same candidate is rejected.
C8_DuplicateCheckOnlyWhenAdding ==
  [][ (SubmitEvent /\ SatisfiesConstraints(Candidate)) =>
         /\ (editIndex # Null /\ \E j \in 1..Len(students) :
                                    j # editIndex + 1 /\ students[j] = Candidate)
              => /\ students'[editIndex + 1] = Candidate
                 /\ \E j \in 1..Len(students') :
                       j # editIndex + 1 /\ students'[j] = students'[editIndex + 1]
                 /\ formMsg' = MsgUpdated
         /\ (editIndex = Null /\ \E j \in 1..Len(students) : students[j] = Candidate)
              => /\ students' = students
                 /\ formMsg' = MsgExists
    ]_vars

\* Two equal records, the result of an update.
C8_Witness ==
  /\ formMsg = MsgUpdated
  /\ Len(students) = 2
  /\ students[1] = students[2]

\* C9: a confirmed delete of row i removes the record at position i and no
\* other, persists the result and leaves the controller in Adding; when the
\* last record goes, the slot holds the empty sequence and the empty
\* indicator is shown.
C9_DeleteRemovesOnlyI ==
  [][ \A i \in 0..(Len(students) - 1) :
        deleteRow(i, TRUE) =>
          /\ Len(students') = Len(students) - 1
          /\ \A j \in 1..i : students'[j] = students[j]
          /\ \A j \in (i + 1)..Len(students') : students'[j] = students[j + 1]
          /\ SlotHolds(localStorage', students')
          /\ editIndex' = Null
          /\ submitBtn' = LabelAdd
          /\ FormVars' = <<<<>>, <<>>, <<>>, <<>>>>
          /\ emptyState' = (IF Len(students) = 1 THEN "block" ELSE "none")
          /\ Len(students) = 1 => SlotHolds(localStorage', <<>>) /\ tbody' = <<>>
    ]_vars

\* The only record was deleted.
C9_Witness ==
  /\ formMsg = MsgDeleted
  /\ students = <<>>
  /\ emptyState = "block"
  /\ PersistedIs(<<>>)

\* C10: a declined delete, and an edit or a delete on an index that names
\* no record, change nothing.
C10_DeclinedOrMissingIsNoOp ==
  [][ \A i \in 0..MaxStudents :
        ( \/ deleteRow(i, FALSE)
          \/ (i >= Len(students) /\ (deleteRow(i, TRUE) \/ startEdit(i))) )
        => UNCHANGED <<students, localStorage, editIndex, submitBtn, FormVars,
                       formMsg, tbody, emptyState>>
    ]_vars

\* A delete was declined while a row was being edited.
C10_Witness ==
  /\ lastEvent = "delete:declined"
  /\ editIndex # Null
  /\ submitBtn = LabelUpdate

\* The five checks of the validator, numbered as the specification numbers
\* them, on the trimmed fields of the form.
CheckViolated(n) ==
  CASE n = 1 -> \/ Candidate.name = <<>> \/ Candidate.id = <<>>
                \/ Candidate.email = <<>> \/ Candidate.contact = <<>>
    [] n = 2 -> ~ValidName(Candidate.name)
    [] n = 3 -> ~ValidId(Candidate.id)
    [] n = 4 -> ~ValidEmail(Candidate.email)
    [] n = 5 -> ~ValidContact(Candidate.contact)

ViolatedChecks == { n \in 1..5 : CheckViolated(n) }

ReasonOf(n) ==
  CASE n = 1 -> MsgRequired
    [] n = 2 -> MsgName
    [] n = 3 -> MsgId
    [] n = 4 -> MsgEmail
    [] n = 5 -> MsgContact

Lowest(set) == CHOOSE n \in set : \A m \in set : n <= m

\* The submission passed validateForm.
PassedValidation == formMsg' \in {MsgAdded, MsgUpdated, MsgExists}

\* C11: a submission that violates one or more checks is answered with the
\* reason of the lowest-numbered violated check; an empty field is reported
\* as missing whatever the other fields hold.
C11_FirstFailingCheckReported ==
  [][ (SubmitEvent /\ ViolatedChecks # {}) =>
         /\ formMsg' = ReasonOf(Lowest(ViolatedChecks))
         /\ CheckViolated(1) => formMsg' = MsgRequired
    ]_vars

\* Name, id, email and contact are all invalid: the name is reported.
C11_Witness ==
  /\ formMsg = MsgName
  /\ ViolatedChecks = {2, 3, 4, 5}

\* C12: validateForm accepts exactly the fields that, trimmed, satisfy the
\* four constraints, and the record it returns holds the trimmed fields; a
\* contact of digits is accepted exactly when it has ten digits or more.
C12_AcceptsExactlyValidFields ==
  [][ SubmitEvent =>
         /\ PassedValidation <=> SatisfiesConstraints(Candidate)
         /\ formMsg' = MsgAdded => students' = Append(students, Candidate)
         /\ (ViolatedChecks \subseteq {5} /\ ValidId(Candidate.contact)) =>
               (PassedValidation <=> Len(Candidate.contact) >= 10)
    ]_vars

\* A record was accepted with an eleven-digit contact and a name that was
\* typed with spaces around it.
C12_Witness ==
  /\ formMsg = MsgAdded
  /\ Len(students) = 1
  /\ students[1].name = <<"A", " ", "B">>
  /\ Len(students[1].contact) = 11

\* local@domain.tld with the last part of the given class of characters
EmailShape(s, TldChar(_)) ==
  \E at \in 2..Len(s) : \E dot \in (at + 2)..(Len(s) - 1) :
     /\ s[at] = "@"
     /\ s[dot] = "."
     /\ \A k \in 1..(at - 1) : s[k] # " " /\ s[k] # "@"
     /\ \A k \in (at + 1)..(dot - 1) : s[k] # " " /\ s[k] # "@"
     /\ \A k \in (dot + 1)..Len(s) : TldChar(s[k])

NonWhitespace(ch) == ch # " "
NonWhitespaceNonAt(ch) == ch # " " /\ ch # "@"

\* The email check is the one reached: no field is empty, name and id pass.
EmailCheckReached == ViolatedChecks \subseteq {4, 5}

\* C13, as stated: the email check passes exactly the strings made of
\* non-whitespace-non-@ characters, one @, non-whitespace-non-@ characters, a
\* dot, and one or more non-whitespace characters.
C13_EmailShapeAsStated ==
  [][ (SubmitEvent /\ EmailCheckReached) =>
         (formMsg' # MsgEmail <=> EmailShape(Candidate.email, NonWhitespace))
    ]_vars

\* C13, amended: the part after the dot, too, is made of characters that are
\* neither whitespace nor @.  An accepted email has exactly one @, no
\* whitespace and a dot after the @.
C13_EmailShape ==
  [][ (SubmitEvent /\ EmailCheckReached) =>
         /\ formMsg' # MsgEmail <=> EmailShape(Candidate.email, NonWhitespaceNonAt)
         /\ formMsg' # MsgEmail =>
              LET e == Candidate.email
              IN  /\ Cardinality({k \in 1..Len(e) : e[k] = "@"}) = 1
                  /\ \A k \in 1..Len(e) : e[k] # " "
                  /\ \E a \in 1..Len(e) : \E d \in (a + 1)..Len(e) :
                        e[a] = "@" /\ e[d] = "."
    ]_vars

\* An email with a second @ after the dot was rejected.
C13_Witness ==
  /\ formMsg = MsgEmail
  /\ EmailShape(Candidate.email, NonWhitespace)

\* An object with exactly the four members of a record.
IsRecord(r) == DOMAIN r = {"name", "id", "email", "contact"}

\* The slot holds a text that parses as a sequence of records.
SlotHoldsRecords(ls) ==
  /\ ls.present
  /\ JSONparse(ls.raw).ok
  /\ \A k \in 1..Len(JSONparse(ls.raw).val) : IsRecord(JSONparse(ls.raw).val[k])

\* C14: what load returns is a sequence of records, and it is the empty
\* sequence, with the empty indicator shown, when the slot is absent or its
\* content does not parse as a sequence of records.
C14_LoadYieldsRecordsOrEmpty ==
  /\ \A k \in 1..Len(students) : IsRecord(students[k])
  /\ ~SlotHoldsRecords(localStorage) => students = <<>> /\ emptyState = "block"

\* One of the five entities escapeHtml writes begins at position k.
EntityAt(s, k) ==
  \E e \in { <<"&", "a", "m", "p", ";">>, <<"&", "l", "t", ";">>, <<"&", "g", "t", ";">>,
             <<"&", "q", "u", "o", "t", ";">>, <<"&", "#", "0", "3", "9", ";">> } :
     /\ k + Len(e) - 1 <= Len(s)
     /\ SubSeq(s, k, k + Len(e) - 1) = e

LiteralText(s) ==
  \A k \in 1..Len(s) :
     /\ s[k] \notin {"<", ">", "\"", "'"}
     /\ s[k] = "&" => EntityAt(s, k)

\* C18: no cell of the table holds '<', '>', '"' or an apostrophe, and every
\* '&' in a cell begins one of the five entities, whatever the fields of the
\* records loaded from the slot hold.
C18_CellsAreLiteralText ==
  \A r \in 1..Len(tbody) :
     /\ LiteralText(tbody[r].name)
     /\ LiteralText(tbody[r].id)
     /\ LiteralText(tbody[r].email)
     /\ LiteralText(tbody[r].contact)

\* A record whose name is "<'" was loaded and drawn.
C18_Witness ==
  /\ Len(students) = 1
  /\ IsRecord(students[1])
  /\ students[1].name = <<"<", "'">>
  /\ tbody[1].name = <<"&", "l", "t", ";", "&", "#", "0", "3", "9", ";">>

\* C15: loading what save wrote for the store gives back the store, with
\* the same length, order and four fields; every write of the slot leaves in
\* it the serialized store alone, whatever it held before; and the page
\* opened again after a save starts from the sequence that was saved.
C15_SaveThenLoadIsIdentity ==
  /\ [] (loadStudents(saveStudents(students)) = students)
  /\ [][ /\ localStorage' # localStorage =>
              localStorage' = saveStudents(students')
         /\ (Reload /\ saveCalled) =>
              /\ Len(students') = Len(students)
              /\ \A k \in 1..Len(students) :
                   /\ students'[k].name = students[k].name
                   /\ students'[k].id = students[k].id
                   /\ students'[k].email = students[k].email
                   /\ students'[k].contact = students[k].contact
       ]_vars

\* The page was opened again on a slot written by a save over another
\* content, and holds two records.
C15_Witness ==
  /\ ~saveCalled
  /\ localStorage \notin InitialSlots
  /\ Len(students) = 2
  /\ students = loadStudents(localStorage)
  /\ tbody = RenderRows(students)

\* C16: whenever a user event can be dispatched (no handler is running),
\* the table has one row per record in store order, row k is labelled k,
\* shows the fields of record k and carries the index k-1 in its edit and
\* delete identifiers, the empty indicator is shown exactly when the store
\* is empty, and no row action has found its index without a record.
C16_TableMatchesStore ==
  /\ pc = "idle" =>
       /\ Len(tbody) = Len(students)
       /\ \A k \in 1..Len(tbody) :
            /\ tbody[k].label = k
            /\ tbody[k].edit = k - 1
            /\ tbody[k].delete = k - 1
            /\ HasRecord(students, tbody[k].edit)
            /\ HasRecord(students, tbody[k].delete)
            /\ tbody[k].name = escapeHtml(students[k].name)
            /\ tbody[k].id = escapeHtml(students[k].id)
            /\ tbody[k].email = escapeHtml(students[k].email)
            /\ tbody[k].contact = escapeHtml(students[k].contact)
       /\ emptyState = "block" <=> Len(students) = 0
  /\ lastEvent \notin {"edit:norecord", "delete:norecord"}

\* The first of two records was deleted: the record left is drawn in row 1
\* with index 0.
C16_Witness ==
  /\ pc = "idle"
  /\ formMsg = MsgDeleted
  /\ students = <<ForeignRecord>>
  /\ Len(tbody) = 1
  /\ tbody[1].edit = 0
  /\ tbody[1].name = <<"B", "&", "l", "t", ";", "1">>

\* The four form fields hold the four fields of record r.
FormShows(r) ==
  /\ nameInput = r.name
  /\ idInput = r.id
  /\ emailInput = r.email
  /\ contactInput = r.contact

\* C17: the page starts in Adding with the "Add" label; in every state the
\* label is the "Update" one exactly when editIndex is an index and the
\* "Add" one exactly when editIndex is null; and a step that moves to
\* Editing(i) is taken on an existing record i, leaves the store as it is
\* and sets the four form fields to the fields of record i.
C17_LabelAgreesWithState ==
  /\ editIndex = Null /\ submitBtn = LabelAdd
  /\ [] ( /\ submitBtn = LabelUpdate <=> editIndex # Null
          /\ submitBtn = LabelAdd <=> editIndex = Null )
  /\ [][ (editIndex' # Null /\ editIndex' # editIndex) =>
            /\ HasRecord(students, editIndex')
            /\ students' = students
            /\ submitBtn' = LabelUpdate
            /\ nameInput' = students[editIndex' + 1].name
            /\ idInput' = students[editIndex' + 1].id
            /\ emailInput' = students[editIndex' + 1].email
            /\ contactInput' = students[editIndex' + 1].contact
       ]_vars

\* Edit was clicked on the second of two records.
C17_Witness ==
  /\ editIndex = 1
  /\ submitBtn = LabelUpdate
  /\ formMsg = MsgEditing
  /\ Len(students) = 2
  /\ FormShows(students[2])

\* C19: in every state editIndex is null or the index of a record of the
\* store, and a submission in Editing(i) leaves the length of the store and
\* every record but record i as they are.
C19_EditIndexInRange ==
  /\ [] (editIndex = Null \/ HasRecord(students, editIndex))
  /\ [][ (SubmitEvent /\ editIndex # Null) =>
            /\ Len(students') = Len(students)
            /\ \A k \in 1..Len(students) :
                 k # editIndex + 1 => students'[k] = students[k]
       ]_vars

\* The delete of a row was declined while the second of two records is
\* being edited.
C19_Witness ==
  /\ editIndex = 1
  /\ Len(students) = 2
  /\ lastEvent = "delete:declined"

\* C20: a submission in Editing(i) with the form showing the fields of
\* record i as they are stored is accepted as an update, leaves the store
\* and the slot holding the same sequence, and returns to Adding.
C20_UnchangedEditSubmitKeepsStore ==
  [][ ( /\ SubmitEvent
        /\ HasRecord(students, editIndex)
        /\ FormShows(students[editIndex + 1]) ) =>
         /\ formMsg' = MsgUpdated
         /\ students' = students
         /\ SlotHolds(localStorage', students)
         /\ editIndex' = Null
    ]_vars

====
